---- MODULE Spec2Model ----
(***************************************************************************)
(* Helio Sight dashboard: the live-alert generator (AlertSystem.tsx), the  *)
(* alert router / tile binding (AlertSystem/README.md, UserTile), the     *)
(* plant aggregation of usePlantsData.ts with its fetches (api.ts), and    *)
(* the application shell: AuthProvider, the route guards and Dashboard.    *)
(*                                                                         *)
(* Time is counted in whole seconds.  A JavaScript timer is a record with  *)
(* the seconds left until it is due; a due timer (left = 0) fires before   *)
(* time advances.  Math.random() is a draw r from RandSamples, standing    *)
(* for the number r / RandDen in [0, 1).                                   *)
(***************************************************************************)
EXTENDS Integers, Sequences, FiniteSets, TLC

VARIABLES
    mounted,       \* mounted[g]: AlertSystem instance g is mounted
    tickTimers,    \* live setInterval timers
    hideTimers,    \* pending setTimeout timers of generateRandomAlert
    alertDisplay,  \* the consumer's alertDisplay state: null or {userId, alert}
    nextId,        \* number of the next alert (freshness of alert.id)
    lastCall,      \* history: the last callback made into the consumer
    watch,         \* history: an observer's stopwatch, seconds since an emission
    rawPlants,     \* usePlantsData: data of the plants query
    rawDevices,    \* usePlantsData: data of the devices query
    plants,        \* usePlantsData: the plants it returns
    plantsError,   \* usePlantsData: error of the plants query
    devicesError,  \* usePlantsData: error of the devices query
    lastFetch,     \* history: how the telemetry source answered the last fetch
    user,            \* AuthProvider: user
    isAuthenticated, \* AuthProvider: isAuthenticated
    isLoading,       \* AuthProvider: isLoading
    localStorage,    \* the browser's localStorage: the 'user' and 'token' items
    location,        \* the router's current path
    dashboard,       \* lifecycle of the Dashboard component
    currentView,     \* Dashboard: currentView
    selectedDevice,  \* Dashboard: selectedDevice
    logoutCall,      \* handleLogout's await of apiClient.logout()
    lastHandler      \* history: the handler that ran last

alertVars == <<mounted, tickTimers, hideTimers, alertDisplay, nextId, lastCall,
               watch>>
plantVars == <<rawPlants, rawDevices, plants, plantsError, devicesError, lastFetch>>
appVars == <<user, isAuthenticated, isLoading, localStorage, location, dashboard,
             currentView, selectedDevice, logoutCall, lastHandler>>
vars == <<mounted, tickTimers, hideTimers, alertDisplay, nextId, lastCall, watch,
          rawPlants, rawDevices, plants, plantsError, devicesError, lastFetch,
          user, isAuthenticated, isLoading, localStorage, location, dashboard,
          currentView, selectedDevice, logoutCall, lastHandler>>

(***************************************************************************)
(* Bounds of the model.                                                    *)
(***************************************************************************)
NumGens == 2      \* AlertSystem instances wired to the same consumer
MaxAlerts == 2    \* alerts emitted in one behaviour
RandDen == 4      \* Math.random() draws are multiples of 1 / RandDen
MaxDevices == 2   \* length of the devices list

Gens == 1..NumGens
RandSamples == {0, RandDen - 1}   \* the draws of the trial, the user and the type
AllSamples == 0..(RandDen - 1)    \* every draw, for a single instance
MessageSamples == {RandDen - 1}   \* the draws of the message

(***************************************************************************)
(* Program constants.                                                      *)
(***************************************************************************)
TickSeconds == 5      \* setInterval(..., 5000)
HideSeconds == 3      \* setTimeout(..., 3000)
NumUsers == 20        \* Math.random() * 20
ChanceTenths == 7     \* Math.random() > 0.7

null == [null |-> TRUE]

alertTypes == <<"critical", "warning", "info">>

alertMessages ==
    [critical |-> <<"System overheating detected",
                    "Power generation critically low",
                    "Inverter failure detected",
                    "Grid connection lost">>,
     warning  |-> <<"Efficiency below threshold",
                    "High ambient temperature",
                    "Dust accumulation detected",
                    "Battery level low">>,
     info     |-> <<"Maintenance scheduled",
                    "Weather update received",
                    "System optimization complete",
                    "Performance report ready">>]

\* Math.floor(Math.random() * n) for the draw r / RandDen
FloorRandom(r, n) == (r * n) \div RandDen

\* `user-${Math.floor(Math.random() * 20) + 1}`
UserId(r) == <<"user-", FloorRandom(r, NumUsers) + 1>>

\* alertTypes[Math.floor(Math.random() * alertTypes.length)]
AlertType(r) == alertTypes[FloorRandom(r, Len(alertTypes)) + 1]

\* mutant: the message is always taken from the info catalog
MessageFromInfo(type, r) ==
    alertMessages["info"][FloorRandom(r, Len(alertMessages["info"])) + 1]

\* messages[Math.floor(Math.random() * messages.length)]
Message(type, r) ==
    alertMessages[type][FloorRandom(r, Len(alertMessages[type])) + 1]

\* the alert object of generateRandomAlert; id is fresh for every alert
MakeAlert(id, rt, rm) ==
    [id |-> id, type |-> AlertType(rt), message |-> Message(AlertType(rt), rm)]

\* mutant: the comparison is turned around (Math.random() < 0.7)
TrialSucceedsBelow(r) == r * 10 < ChanceTenths * RandDen

\* Math.random() > 0.7
TrialSucceeds(r) == r * 10 > ChanceTenths * RandDen

(***************************************************************************)
(* The consumer (router): showAlert, hideAlert and the tile's read.        *)
(***************************************************************************)
\* the subjects rendered as tiles: user-1 .. user-20
Users == {<<"user-", n>> : n \in 1..NumUsers}

\* mutant: a displayed critical alert is not replaced by a lesser one
showAlertPriority(userId, alert) ==
    IF alertDisplay # null /\ alertDisplay.alert.type = "critical"
                           /\ alert.type # "critical"
    THEN alertDisplay
    ELSE [userId |-> userId, alert |-> alert]

\* mutant: a displayed alert is kept and the new one waits (is dropped here)
showAlertKeepFirst(userId, alert) ==
    IF alertDisplay # null THEN alertDisplay
    ELSE [userId |-> userId, alert |-> alert]

\* const showAlert = (userId, alert) => setAlertDisplay({ userId, alert })
showAlert(userId, alert) == [userId |-> userId, alert |-> alert]

\* mutant: the expiry clears the display only when a due timer was
\* scheduled for the displayed alert
hideAlertIfOwn ==
    IF alertDisplay # null
       /\ \E t \in hideTimers : t.left = 0 /\ t.id = alertDisplay.alert.id
    THEN null
    ELSE alertDisplay

\* mutant: a critical alert stays until it is replaced
hideAlertKeepCritical ==
    IF alertDisplay # null /\ alertDisplay.alert.type = "critical"
    THEN alertDisplay
    ELSE null

\* mutant: hide toggles; on an idle display it shows the due timer's alert again
hideAlertToggle ==
    IF alertDisplay = null
    THEN LET t == CHOOSE t \in hideTimers : t.left = 0
         IN  [userId |-> t.userId, alert |-> MakeAlert(t.id, 0, RandDen - 1)]
    ELSE null

\* mutant: the display is kept while another alert's timer is still pending
hideAlertDeferred ==
    IF \E t \in hideTimers : t.left > 0 THEN alertDisplay ELSE null

\* const hideAlert = () => setAlertDisplay(null)
hideAlert == null

\* mutant: the tile does not compare the target with its own user
ShowAlertPropAny(display, tileUser) ==
    IF display # null THEN display.alert ELSE null

\* showAlert={alertDisplay?.userId === user.id ? alertDisplay.alert : null}
ShowAlertProp(display, tileUser) ==
    IF display # null /\ display.userId = tileUser THEN display.alert ELSE null

\* UserTile: {showAlert && (<overlay/>)}
Overlay(display, tileUser) == ShowAlertProp(display, tileUser) # null

(***************************************************************************)
(* The generator: AlertSystem's effect.                                    *)
(***************************************************************************)
\* mutant: the cleanup leaves the interval running
clearIntervalNone(timers, g) == timers

\* clearInterval(interval): the interval the current effect run created
clearInterval(timers, g) == {t \in timers : ~(t.owner = g /\ ~t.stale)}

\* history only: an interval that outlives its effect run's cleanup is stale
Orphan(timers, g) ==
    {IF t.owner = g THEN [t EXCEPT !.stale = TRUE] ELSE t : t \in timers}

\* setInterval(..., 5000)
setInterval(timers, g) ==
    timers \cup {[owner |-> g, left |-> TickSeconds, stale |-> FALSE]}

\* mutant: no expiry is scheduled while another one is pending
setTimeoutOnce(timers, g, userId, id) ==
    IF timers # {} THEN timers
    ELSE {[owner |-> g, left |-> HideSeconds, userId |-> userId, id |-> id]}

\* mutant: the display time is longer than the tick interval
setTimeoutLate(timers, g, userId, id) ==
    timers \cup {[owner |-> g, left |-> TickSeconds + HideSeconds,
                  userId |-> userId, id |-> id]}

\* setTimeout(() => onAlertHide(), 3000), remembering the alert it follows
setTimeout(timers, g, userId, id) ==
    timers \cup {[owner |-> g, left |-> HideSeconds, userId |-> userId, id |-> id]}

\* return () => clearInterval(interval)
Cleanup(g) == Orphan(clearInterval(tickTimers, g), g)

\* the component mounts and its effect runs
Mount(g) ==
    /\ ~mounted[g]
    /\ mounted' = [mounted EXCEPT ![g] = TRUE]
    /\ tickTimers' = setInterval(tickTimers, g)
    /\ UNCHANGED <<hideTimers, alertDisplay, nextId, lastCall, watch, plantVars, appVars>>

\* mutant: the cleanup also clears the instance's pending hide timers
UnmountCancelling(g) ==
    /\ mounted[g]
    /\ mounted' = [mounted EXCEPT ![g] = FALSE]
    /\ tickTimers' = Cleanup(g)
    /\ hideTimers' = {t \in hideTimers : t.owner # g}
    /\ UNCHANGED <<alertDisplay, nextId, lastCall, watch, plantVars, appVars>>

\* the component unmounts: the effect's cleanup runs
Unmount(g) ==
    /\ mounted[g]
    /\ mounted' = [mounted EXCEPT ![g] = FALSE]
    /\ tickTimers' = Cleanup(g)
    /\ UNCHANGED <<hideTimers, alertDisplay, nextId, lastCall, watch, plantVars, appVars>>

\* mutant: the effect runs again without the cleanup of the previous run
RerunNoCleanup(g) ==
    /\ mounted[g]
    /\ tickTimers' = setInterval(tickTimers, g)
    /\ UNCHANGED <<mounted, hideTimers, alertDisplay, nextId, lastCall, watch,
                   plantVars, appVars>>

\* onAlertShow or onAlertHide changed: cleanup, then the effect runs again
Rerun(g) ==
    /\ mounted[g]
    /\ tickTimers' = setInterval(Cleanup(g), g)
    /\ UNCHANGED <<mounted, hideTimers, alertDisplay, nextId, lastCall, watch, plantVars, appVars>>

\* mutant: a fired interval comes back after the display time, not the tick time
RearmEarly(timers, t) == (timers \ {t}) \cup {[t EXCEPT !.left = HideSeconds]}

\* a setInterval timer re-arms itself when it fires
Rearm(timers, t) == (timers \ {t}) \cup {[t EXCEPT !.left = TickSeconds]}

\* history only: what a callback found displayed (who, which alert, how severe)
Seen(display) ==
    IF display = null THEN null
    ELSE [userId |-> display.userId, id |-> display.alert.id,
          type |-> display.alert.type]

\* history only: the stopwatch saturates after two tick intervals
WatchCap == 2 * TickSeconds + 1
Restarted(w) == IF w = <<>> THEN <<>> ELSE <<0>>
Elapsed(w) ==
    IF w = <<>> THEN <<>>
    ELSE IF w[1] < WatchCap THEN <<w[1] + 1>> ELSE w

\* the interval fires and Math.random() > 0.7 fails: nothing is emitted
TickSkip(t, r) ==
    /\ t \in tickTimers /\ t.left = 0
    /\ ~TrialSucceeds(r)
    /\ tickTimers' = Rearm(tickTimers, t)
    /\ UNCHANGED <<mounted, hideTimers, alertDisplay, nextId, lastCall, watch, plantVars, appVars>>

\* the interval fires, the trial succeeds: generateRandomAlert()
TickEmit(t, r, ru, rt, rm) ==
    /\ t \in tickTimers /\ t.left = 0
    /\ TrialSucceeds(r)
    /\ nextId <= MaxAlerts
    /\ LET userId == UserId(ru)
           alert == MakeAlert(nextId, rt, rm)
       IN /\ alertDisplay' = showAlert(userId, alert)
          /\ hideTimers' = setTimeout(hideTimers, t.owner, userId, alert.id)
          /\ lastCall' = [op |-> "show", id |-> alert.id, userId |-> userId,
                          cancelled |-> t.stale, before |-> Seen(alertDisplay),
                          trial |-> r, gap |-> watch]
    /\ watch' = Restarted(watch)
    /\ nextId' = nextId + 1
    /\ tickTimers' = Rearm(tickTimers, t)
    /\ UNCHANGED <<mounted, plantVars, appVars>>

\* a hide timer fires: onAlertHide()
HideFire(t) ==
    /\ t \in hideTimers /\ t.left = 0
    /\ alertDisplay' = hideAlert
    /\ hideTimers' = hideTimers \ {t}
    /\ lastCall' = [op |-> "hide", id |-> t.id, userId |-> t.userId,
                    cancelled |-> ~mounted[t.owner],
                    before |-> Seen(alertDisplay), trial |-> 0, gap |-> <<>>]
    /\ UNCHANGED <<mounted, tickTimers, nextId, watch, plantVars, appVars>>

\* one second passes; no timer is due
Elapse(timers) == {[t EXCEPT !.left = t.left - 1] : t \in timers}

Advance ==
    /\ tickTimers \cup hideTimers # {}
    /\ \A t \in tickTimers : t.left > 0
    /\ \A t \in hideTimers : t.left > 0
    /\ tickTimers' = Elapse(tickTimers)
    /\ hideTimers' = Elapse(hideTimers)
    /\ watch' = Elapsed(watch)
    /\ UNCHANGED <<mounted, alertDisplay, nextId, lastCall, plantVars, appVars>>

\* history only: an observer starts the stopwatch at the instant of an emission
StartWatch ==
    /\ watch = <<>>
    /\ lastCall.op = "show"
    /\ \E t \in hideTimers : t.id = lastCall.id /\ t.left = HideSeconds
    /\ watch' = <<0>>
    /\ UNCHANGED <<mounted, tickTimers, hideTimers, alertDisplay, nextId, lastCall,
                   plantVars, appVars>>

NoCall ==
    [op |-> "none", id |-> 0, userId |-> <<>>, cancelled |-> FALSE,
     before |-> null, trial |-> 0, gap |-> <<>>]

AlertInit ==
    /\ mounted = [g \in Gens |-> FALSE]
    /\ tickTimers = {}
    /\ hideTimers = {}
    /\ alertDisplay = null
    /\ nextId = 1
    /\ lastCall = NoCall
    /\ watch = <<>>

(***************************************************************************)
(* usePlantsData: the plants and devices queries and the derived plants.   *)
(* Power is counted in tenths of a kW, efficiency in hundredths of a       *)
(* percent.  A record without a field is a row where the field is absent.  *)
(***************************************************************************)
PlantIds == {"p1", "p2"}                  \* plants.plant_id, a primary key
Capacities == {0, 30, 100}                \* plants.capacity, when present
DeviceStatuses == <<"online", "offline", "fault", "warning", "unknown">>
Outputs == <<15, 35>>                     \* devices.current_output, when present

PlantRows ==
    [plant_id : PlantIds] \cup [plant_id : PlantIds, capacity : Capacities]

StatusSet == {DeviceStatuses[i] : i \in DOMAIN DeviceStatuses}
OutputSet == {Outputs[i] : i \in DOMAIN Outputs}

DeviceRows ==
    [plant_id : PlantIds, status : StatusSet]
        \cup [plant_id : PlantIds, status : StatusSet, current_output : OutputSet]

\* x.f || 0
OrZero(x, f) == IF f \in DOMAIN x /\ x[f] # 0 THEN x[f] ELSE 0

\* mutant: the device list is not filtered by plant
devicesForPlantAll(p, devices) == devices

\* rawDevices.filter((d) => d.plant_id === p.plant_id)
RECURSIVE devicesForPlant(_, _)
devicesForPlant(p, devices) ==
    IF devices = <<>> THEN <<>>
    ELSE LET rest == devicesForPlant(p, SubSeq(devices, 1, Len(devices) - 1))
             d == devices[Len(devices)]
         IN  IF d.plant_id = p.plant_id THEN Append(rest, d) ELSE rest

\* mutant: the reducer returns the device's output instead of adding it
totalGenerationLast(ds) ==
    IF ds = <<>> THEN 0 ELSE OrZero(ds[Len(ds)], "current_output")

\* devicesForPlant.reduce((sum, d) => sum + (d.current_output || 0), 0)
RECURSIVE totalGeneration(_)
totalGeneration(ds) ==
    IF ds = <<>> THEN 0
    ELSE totalGeneration(SubSeq(ds, 1, Len(ds) - 1))
             + OrZero(ds[Len(ds)], "current_output")

\* mutant: the hundredths are cut off instead of rounded
toFixed2Truncating(num, den) ==
    LET n == (num * 10000) \div den
    IN  [int |-> n \div 100, frac |-> n % 100]

\* (num / den * 100).toFixed(2): the nearest hundredth, a tie going up,
\* written as its integer part and two decimals
toFixed2(num, den) ==
    LET n == (2 * num * 10000 + den) \div (2 * den)
    IN  [int |-> n \div 100, frac |-> n % 100]

\* Number(x), in hundredths: x is the text of toFixed or the number 0
NumberOf(x) ==
    IF "number" \in DOMAIN x THEN x.number * 100 ELSE x.int * 100 + x.frac

\* mutant: a missing or zero capacity is replaced by 1 (capacity || 1)
efficiencyDefaultCapacity(p, generation) ==
    toFixed2(generation, IF OrZero(p, "capacity") # 0 THEN p.capacity ELSE 1)

\* p.capacity ? ((totalGeneration / p.capacity) * 100).toFixed(2) : 0
efficiency(p, generation) ==
    IF OrZero(p, "capacity") # 0 THEN toFixed2(generation, p.capacity)
    ELSE [number |-> 0]

\* Array.prototype.every and Array.prototype.some over the device states
every(ds, states) == \A i \in 1..Len(ds) : ds[i].status \in states
some(ds, states) == \E i \in 1..Len(ds) : ds[i].status \in states

\* mutant: the offline rule is missing
statusNoOffline(ds) ==
    IF some(ds, {"fault", "warning"}) THEN "maintenance" ELSE "online"

\* mutant: one offline device is enough for 'offline' (some instead of every)
statusSomeOffline(ds) ==
    IF some(ds, {"offline"}) THEN "offline"
    ELSE IF some(ds, {"fault", "warning"}) THEN "maintenance"
    ELSE "online"

\* let status = 'online'; if (every offline) ... else if (some fault|warning) ...
status(ds) ==
    IF every(ds, {"offline"}) THEN "offline"
    ELSE IF some(ds, {"fault", "warning"}) THEN "maintenance"
    ELSE "online"

\* mutant: deviceCount counts the whole device list
MapPlantCountAll(p, devices) ==
    LET ds == devicesForPlant(p, devices)
        generation == totalGeneration(ds)
    IN  [id |-> p.plant_id,
         totalCapacity |-> IF "capacity" \in DOMAIN p THEN <<p.capacity>> ELSE <<>>,
         currentGeneration |-> generation,
         efficiency |-> NumberOf(efficiency(p, generation)),
         deviceCount |-> Len(devices),
         status |-> status(ds)]

\* the Plant built for one raw plant (name, location and lastUpdate are
\* passed through or read from the clock and are left out)
MapPlant(p, devices) ==
    LET ds == devicesForPlant(p, devices)
        generation == totalGeneration(ds)
    IN  [id |-> p.plant_id,
         totalCapacity |-> IF "capacity" \in DOMAIN p THEN <<p.capacity>> ELSE <<>>,
         currentGeneration |-> generation,
         efficiency |-> NumberOf(efficiency(p, generation)),
         deviceCount |-> Len(ds),
         status |-> status(ds)]

\* mutant: the mapping is memoized on the number of plants only
MapPlantsCached(ps, devices) ==
    IF ps # <<>> /\ Len(plants) = Len(ps) THEN plants
    ELSE [i \in 1..Len(ps) |-> MapPlant(ps[i], devices)]

\* rawPlants.map((p) => ...)
MapPlants(ps, devices) == [i \in 1..Len(ps) |-> MapPlant(ps[i], devices)]

(***************************************************************************)
(* The status classifiers of PlantsOverview and UserTile.                  *)
(***************************************************************************)
\* PlantsOverview getStatusBg
getStatusBg(s) ==
    CASE s = "online" -> "bg-green-50 border-green-200"
      [] s = "offline" -> "bg-red-50 border-red-200"
      [] s = "warning" -> "bg-orange-50 border-orange-200"
      [] s = "fault" -> "bg-red-100 border-red-300"
      [] s = "maintenance" -> "bg-yellow-50 border-yellow-200"
      [] OTHER -> "bg-gray-50 border-gray-200"

\* mutant: the switch has no default branch and yields undefined
getStatusColorNoDefault(s) ==
    CASE s = "online" -> "text-green-500"
      [] s = "offline" -> "text-red-500"
      [] s = "warning" -> "text-orange-500"
      [] s = "fault" -> "text-red-600"
      [] s = "maintenance" -> "text-yellow-500"
      [] OTHER -> "undefined"

\* PlantsOverview getStatusColor
getStatusColor(s) ==
    CASE s = "online" -> "text-green-500"
      [] s = "offline" -> "text-red-500"
      [] s = "warning" -> "text-orange-500"
      [] s = "fault" -> "text-red-600"
      [] s = "maintenance" -> "text-yellow-500"
      [] OTHER -> "text-gray-500"

\* UserTile getStatusColor
tileStatusColor(s) ==
    CASE s = "online" -> "text-green-500"
      [] s = "offline" -> "text-red-500"
      [] s = "maintenance" -> "text-yellow-500"
      [] OTHER -> "text-gray-500"

\* the statuses PlantsOverview renders: plant.status and device.status
RenderedStatuses ==
    {plants[i].status : i \in DOMAIN plants}
        \cup {rawDevices[j].status : j \in DOMAIN rawDevices}

\* the lists are enumerated up to the order of the devices: this rank is
\* non-decreasing along rawDevices
Index(seq, x) == CHOOSE i \in DOMAIN seq : seq[i] = x
Rank(d) ==
    (IF d.plant_id = "p1" THEN 0 ELSE 100)
        + 10 * Index(DeviceStatuses, d.status)
        + (IF "current_output" \in DOMAIN d THEN Index(Outputs, d.current_output) ELSE 0)

\* the telemetry source's reply to a fetch: the rows, or a failure
Answered(rows) == [ok |-> TRUE, data |-> rows]
Failed == [ok |-> FALSE]
NetworkError == [message |-> "Network Error"]

\* ApiClient.getPlants: try { return response.data } catch { return [] }
getPlants(reply) ==
    IF reply.ok THEN [value |-> reply.data] ELSE [value |-> <<>>]

\* ApiClient.getDevices: try { return response.data } catch { return [] }
getDevices(reply) ==
    IF reply.ok THEN [value |-> reply.data] ELSE [value |-> <<>>]

\* useQuery: a rejected queryFn sets error and keeps the data, a resolved one
\* sets the data and clears the error
useQuery(data, promise) ==
    IF "reason" \in DOMAIN promise
    THEN [data |-> data, error |-> promise.reason]
    ELSE [data |-> promise.value, error |-> null]

\* error: plantsError || devicesError
error == IF plantsError # null THEN plantsError ELSE devicesError

\* PlantsOverview once the queries have settled: if (error) ... else the lists
PlantsOverviewRender == IF error # null THEN "error" ELSE "plants"

\* the devices query resolves with one more device; the hook renders again
DevicesFetched(d) ==
    /\ Len(rawDevices) < MaxDevices
    /\ IF rawDevices = <<>> THEN TRUE
       ELSE Rank(rawDevices[Len(rawDevices)]) <= Rank(d)
    /\ LET q == useQuery(rawDevices, getDevices(Answered(Append(rawDevices, d))))
       IN  rawDevices' = q.data /\ devicesError' = q.error
    /\ plants' = MapPlants(rawPlants, rawDevices')
    /\ lastFetch' = "answered"
    /\ UNCHANGED <<rawPlants, plantsError, alertVars, appVars>>

\* the devices fetch fails; the hook renders again
DevicesFailed ==
    /\ LET q == useQuery(rawDevices, getDevices(Failed))
       IN  rawDevices' = q.data /\ devicesError' = q.error
    /\ plants' = MapPlants(rawPlants, rawDevices')
    /\ lastFetch' = "failed"
    /\ UNCHANGED <<rawPlants, plantsError, alertVars, appVars>>

\* the plants query resolves with one more plant; the hook renders again
PlantsFetched(p) ==
    /\ \A i \in 1..Len(rawPlants) : rawPlants[i].plant_id # p.plant_id
    /\ LET q == useQuery(rawPlants, getPlants(Answered(Append(rawPlants, p))))
       IN  rawPlants' = q.data /\ plantsError' = q.error
    /\ plants' = MapPlants(rawPlants', rawDevices)
    /\ lastFetch' = "answered"
    /\ UNCHANGED <<rawDevices, devicesError, alertVars, appVars>>

\* the plants fetch fails; the hook renders again
PlantsFailed ==
    /\ LET q == useQuery(rawPlants, getPlants(Failed))
       IN  rawPlants' = q.data /\ plantsError' = q.error
    /\ plants' = MapPlants(rawPlants', rawDevices)
    /\ lastFetch' = "failed"
    /\ UNCHANGED <<rawDevices, devicesError, alertVars, appVars>>

\* useQuery's default data: rawPlants = [], rawDevices = []
PlantIdle ==
    /\ rawPlants = <<>>
    /\ rawDevices = <<>>
    /\ plants = MapPlants(<<>>, <<>>)
    /\ plantsError = null
    /\ devicesError = null
    /\ lastFetch = "none"

PlantNext ==
    \/ \E d \in DeviceRows : DevicesFetched(d)
    \/ DevicesFailed
    \/ \E p \in PlantRows : PlantsFetched(p)
    \/ PlantsFailed

(***************************************************************************)
(* The application shell: AuthProvider, the route guards and the Dashboard *)
(* page.  A localStorage item is Absent or a text; JSON text is kept as    *)
(* the value it encodes.                                                   *)
(***************************************************************************)
Absent == [absent |-> TRUE]                      \* getItem(...) === null
Garbage == [text |-> "{"]                        \* a text JSON.parse rejects
Jwt == [text |-> "jwt"]                          \* a token
stringify(u) == [text |-> "json", value |-> u]   \* JSON.stringify(userData)

\* JSON.parse(storedUser) followed by parsedUser.username: both throw on other
\* texts than an object's JSON
Parses(item) == item.text = "json"
parse(item) == item.value

TempUser == [id |-> "temp", username |-> "temp", fullname |-> "temp"]
AdminUser == [id |-> "1", username |-> "admin", fullname |-> "Admin"]
DeviceIds == {"INV-1", "INV-2"}
Paths == {"/login", "/register", "/dashboard", "/analytics"}

\* what an earlier session may have left in localStorage
StoredUsers == {Absent, Garbage, stringify(TempUser), stringify(AdminUser)}
StoredTokens == {Absent, Jwt}

\* if (userData.username === 'admin') { fullname = ...; email = ... }
Rebrand(u) ==
    IF u.username = "admin"
    THEN [id |-> u.id, username |-> u.username, fullname |-> "Priyanshu Uchat",
          email |-> "priyanshu.uchat@gmail.com"]
    ELSE u

\* ProtectedRoute and PublicRoute: where the router ends up
Route(path, loading, auth) ==
    IF loading THEN path
    ELSE IF path \in {"/login", "/register"}
         THEN (IF auth THEN "/dashboard" ELSE path)
         ELSE (IF auth THEN path ELSE "/login")

\* the render that follows a state change: the guards redirect, the Dashboard
\* is mounted (with its useState defaults) or unmounted, and a logout call
\* of an unmounted Dashboard can no longer set its state
Commit(u, auth, loading, path, stage, view, device, call) ==
    LET to == Route(path, loading, auth)
        shown == ~loading /\ auth /\ to = "/dashboard"
        was == dashboard # "unmounted"
    IN  /\ user' = u
        /\ isAuthenticated' = auth
        /\ isLoading' = loading
        /\ location' = to
        /\ dashboard' = IF ~shown THEN "unmounted"
                        ELSE IF ~was THEN "mounting" ELSE stage
        /\ currentView' = IF shown /\ ~was THEN "login" ELSE view
        /\ selectedDevice' = IF shown /\ ~was THEN null ELSE device
        /\ logoutCall' = IF was /\ ~shown /\ call = "pending" THEN "orphaned"
                         ELSE call

\* Dashboard's render: which child is on screen
DashboardRender ==
    IF isLoading THEN "Loading"
    ELSE IF currentView = "login" THEN "LoginForm"
    ELSE IF currentView = "register" THEN "RegisterForm"
    ELSE IF currentView = "plants" /\ user # null THEN "PlantsOverview"
    ELSE IF currentView = "device" /\ selectedDevice # null THEN "DeviceDetail"
    ELSE "LoginForm"

Interactive == dashboard = "ready"

\* history only: the handler that ran; for handleLogout, whether the request
\* failed and whether its Dashboard was still mounted
Ran(name) == [name |-> name, failed |-> FALSE, alive |-> TRUE]

AppInit ==
    /\ user = null
    /\ isAuthenticated = FALSE
    /\ isLoading = TRUE
    /\ localStorage = [user |-> Absent, token |-> Absent]
    /\ location = "/dashboard"
    /\ dashboard = "unmounted"
    /\ currentView = "login"
    /\ selectedDevice = null
    /\ logoutCall = "idle"
    /\ lastHandler = Ran("none")

\* localStorage as an earlier session left it, found at the first load
EarlierSession(storedUser, storedToken) ==
    /\ isLoading
    /\ lastHandler = Ran("none")
    /\ localStorage = [user |-> Absent, token |-> Absent]
    /\ <<storedUser, storedToken>> # <<Absent, Absent>>
    /\ localStorage' = [user |-> storedUser, token |-> storedToken]
    /\ UNCHANGED <<user, isAuthenticated, isLoading, location, dashboard,
                   currentView, selectedDevice, logoutCall, lastHandler,
                   alertVars, plantVars>>

\* mutant: a stored token alone authenticates
AuthProviderEffectTokenOnly ==
    /\ isLoading
    /\ LET storedUser == localStorage.user
           storedToken == localStorage.token
           parsed == IF storedUser # Absent THEN Parses(storedUser) ELSE FALSE
       IN  /\ localStorage' = localStorage
           /\ Commit(IF parsed THEN Rebrand(parse(storedUser)) ELSE user,
                     IF storedToken # Absent THEN TRUE ELSE isAuthenticated,
                     FALSE, location, dashboard, currentView, selectedDevice,
                     logoutCall)
    /\ lastHandler' = Ran("AuthProvider")
    /\ UNCHANGED <<alertVars, plantVars>>

\* AuthProvider's effect: restore the session from localStorage
AuthProviderEffect ==
    /\ isLoading
    /\ LET storedUser == localStorage.user
           storedToken == localStorage.token
           both == storedUser # Absent /\ storedToken # Absent
           parsed == IF both THEN Parses(storedUser) ELSE FALSE
       IN  /\ localStorage' = IF both /\ ~parsed
                              THEN [user |-> Absent, token |-> Absent]
                              ELSE localStorage
           /\ Commit(IF parsed THEN Rebrand(parse(storedUser)) ELSE user,
                     IF parsed THEN TRUE ELSE isAuthenticated,
                     FALSE, location, dashboard, currentView, selectedDevice,
                     logoutCall)
    /\ lastHandler' = Ran("AuthProvider")
    /\ UNCHANGED <<alertVars, plantVars>>

\* AuthProvider.login(userData, token), then the router at path
login(userData, token, path) ==
    /\ localStorage' =
           [user |-> stringify(Rebrand(userData)),
            token |-> IF token # "" THEN [text |-> token] ELSE localStorage.token]
    /\ Commit(Rebrand(userData), TRUE, isLoading, path, dashboard, currentView,
              selectedDevice, logoutCall)

\* LoginPageWrapper.handleLogin: login(mock user, token); navigate('/dashboard')
LoginPageWrapper(token) ==
    /\ ~isLoading /\ ~isAuthenticated /\ location = "/login"
    /\ login(TempUser, token, "/dashboard")
    /\ lastHandler' = Ran("LoginPageWrapper")
    /\ UNCHANGED <<alertVars, plantVars>>

\* RegisterPageWrapper.handleRegister: the same from /register
RegisterPageWrapper(token) ==
    /\ ~isLoading /\ ~isAuthenticated /\ location = "/register"
    /\ login(TempUser, token, "/dashboard")
    /\ lastHandler' = Ran("RegisterPageWrapper")
    /\ UNCHANGED <<alertVars, plantVars>>

\* Dashboard's two effects, run in order after it mounted.  Both read the
\* rendered isAuthenticated, user and isLoading; the later setCurrentView wins.
DashboardEffects ==
    /\ dashboard = "mounting"
    /\ LET storedToken == localStorage.token # Absent
           first == IF storedToken /\ ~isLoading THEN "plants"
                    ELSE IF ~isLoading THEN "login" ELSE currentView
           forced == IF storedToken /\ ~isLoading THEN TRUE ELSE isAuthenticated
           second == IF isAuthenticated /\ user # null /\ ~isLoading THEN "plants"
                     ELSE IF ~isLoading /\ ~storedToken THEN "login" ELSE first
       IN  Commit(user, forced, isLoading, location, "ready", second,
                  selectedDevice, logoutCall)
    /\ lastHandler' = Ran("effects")
    /\ UNCHANGED <<localStorage, alertVars, plantVars>>

\* Dashboard.handleLogin: setIsAuthenticated(true); the view follows 100 ms
\* later.  It is the onLogin of the LoginForm the Dashboard renders.
handleLogin ==
    /\ Interactive /\ DashboardRender = "LoginForm"
    /\ Commit(user, TRUE, isLoading, location, dashboard, "plants",
              selectedDevice, logoutCall)
    /\ lastHandler' = Ran("handleLogin")
    /\ UNCHANGED <<localStorage, alertVars, plantVars>>

\* Dashboard.handleDeviceSelect
handleDeviceSelect(device) ==
    /\ Interactive /\ DashboardRender = "PlantsOverview"
    /\ Commit(user, isAuthenticated, isLoading, location, dashboard, "device",
              [id |-> device], logoutCall)
    /\ lastHandler' = Ran("handleDeviceSelect")
    /\ UNCHANGED <<localStorage, alertVars, plantVars>>

\* mutant: the selection is cleared but the view is left as it is
handleBackToPlantsKeepsView ==
    /\ Interactive /\ DashboardRender = "DeviceDetail"
    /\ Commit(user, isAuthenticated, isLoading, location, dashboard, currentView,
              null, logoutCall)
    /\ lastHandler' = Ran("handleBackToPlants")
    /\ UNCHANGED <<localStorage, alertVars, plantVars>>

\* Dashboard.handleBackToPlants
handleBackToPlants ==
    /\ Interactive /\ DashboardRender = "DeviceDetail"
    /\ Commit(user, isAuthenticated, isLoading, location, dashboard, "plants",
              null, logoutCall)
    /\ lastHandler' = Ran("handleBackToPlants")
    /\ UNCHANGED <<localStorage, alertVars, plantVars>>

\* Dashboard.handleLogout up to its await: the logout request is on its way
handleLogout ==
    /\ Interactive /\ DashboardRender \in {"PlantsOverview", "DeviceDetail"}
    /\ logoutCall = "idle"
    /\ logoutCall' = "pending"
    /\ lastHandler' = Ran("handleLogout (awaiting)")
    /\ UNCHANGED <<user, isAuthenticated, isLoading, localStorage, location,
                   dashboard, currentView, selectedDevice, alertVars, plantVars>>

\* ApiClient.logout: try { await post } catch (error) { ...; throw error }
apiLogout(reply) ==
    IF reply.ok THEN [value |-> <<>>] ELSE [reason |-> NetworkError]

\* AuthProvider.logout, then the Dashboard's own state
logout(view, device) ==
    /\ localStorage' = [user |-> Absent, token |-> Absent]
    /\ Commit(null, FALSE, isLoading, location, dashboard, view, device, "idle")

\* mutant: the catch branch only logs the error
handleLogoutSettledNoCatch(reply) ==
    /\ logoutCall \in {"pending", "orphaned"}
    /\ LET alive == logoutCall = "pending"
       IN  /\ IF "reason" \in DOMAIN apiLogout(reply)
              THEN /\ localStorage' = localStorage
                   /\ Commit(user, isAuthenticated, isLoading, location, dashboard,
                             currentView, selectedDevice, "idle")
              ELSE logout(IF alive THEN "login" ELSE currentView,
                          IF alive THEN null ELSE selectedDevice)
           /\ lastHandler' = [name |-> "handleLogout",
                              failed |-> "reason" \in DOMAIN apiLogout(reply),
                              alive |-> alive]
    /\ UNCHANGED <<alertVars, plantVars>>

\* Dashboard.handleLogout after its await: the try branch when the request
\* resolved, the catch branch when it was rejected; the setters of an
\* unmounted Dashboard do nothing
handleLogoutSettled(reply) ==
    /\ logoutCall \in {"pending", "orphaned"}
    /\ LET alive == logoutCall = "pending"
       IN  /\ IF "reason" \in DOMAIN apiLogout(reply)
              THEN logout(IF alive THEN "login" ELSE currentView,
                          IF alive THEN null ELSE selectedDevice)
              ELSE logout(IF alive THEN "login" ELSE currentView,
                          IF alive THEN null ELSE selectedDevice)
           /\ lastHandler' = [name |-> "handleLogout",
                              failed |-> "reason" \in DOMAIN apiLogout(reply),
                              alive |-> alive]
    /\ UNCHANGED <<alertVars, plantVars>>

\* a link or navigate(...) inside the application
Navigate(path) ==
    /\ ~isLoading
    /\ path # location
    /\ Commit(user, isAuthenticated, isLoading, path, dashboard, currentView,
              selectedDevice, logoutCall)
    /\ lastHandler' = Ran("navigate")
    /\ UNCHANGED <<localStorage, alertVars, plantVars>>

\* the page is loaded again at path: the React state starts over, pending
\* calls are gone, localStorage stays
Reload(path) ==
    /\ lastHandler # Ran("none")
    /\ user' = null
    /\ isAuthenticated' = FALSE
    /\ isLoading' = TRUE
    /\ location' = path
    /\ dashboard' = "unmounted"
    /\ currentView' = "login"
    /\ selectedDevice' = null
    /\ logoutCall' = "idle"
    /\ lastHandler' = Ran("reload")
    /\ UNCHANGED <<localStorage, alertVars, plantVars>>

Tokens == {"jwt", ""}

AppNext ==
    \/ \E storedUser \in StoredUsers, storedToken \in StoredTokens :
           EarlierSession(storedUser, storedToken)
    \/ AuthProviderEffect
    \/ \E token \in Tokens : LoginPageWrapper(token)
    \/ \E token \in Tokens : RegisterPageWrapper(token)
    \/ DashboardEffects
    \/ \E device \in DeviceIds : handleDeviceSelect(device)
    \/ handleBackToPlants
    \/ handleLogout
    \/ \E reply \in {Answered(<<>>), Failed} : handleLogoutSettled(reply)
    \/ \E path \in Paths : Navigate(path)
    \/ \E path \in Paths : Reload(path)

Init == AlertInit /\ PlantIdle /\ AppInit

PlantSpec == Init /\ [][PlantNext]_vars

AppSpec == Init /\ [][AppNext]_vars

Next ==
    \/ \E g \in Gens : Mount(g)
    \/ \E g \in Gens : Unmount(g)
    \/ \E g \in Gens : Rerun(g)
    \/ \E t \in tickTimers, r \in RandSamples : TickSkip(t, r)
    \/ \E t \in tickTimers, r, ru, rt \in RandSamples, rm \in MessageSamples :
            TickEmit(t, r, ru, rt, rm)
    \/ \E t \in hideTimers : HideFire(t)
    \/ Advance

Spec == Init /\ [][Next]_vars

\* a single AlertSystem instance, with every draw of Math.random()
SoloNext ==
    \/ Mount(1)
    \/ Unmount(1)
    \/ Rerun(1)
    \/ \E t \in tickTimers, r \in AllSamples : TickSkip(t, r)
    \/ \E t \in tickTimers, r, ru, rt, rm \in AllSamples : TickEmit(t, r, ru, rt, rm)
    \/ \E t \in hideTimers : HideFire(t)
    \/ Advance

SoloSpec == Init /\ [][SoloNext]_vars

\* the single instance, observed with a stopwatch
TimedNext == SoloNext \/ StartWatch

TimedSpec == Init /\ [][TimedNext]_vars

\* the event loop runs every due timer, and time passes
Fire ==
    \/ \E t \in tickTimers, r \in AllSamples : TickSkip(t, r)
    \/ \E t \in tickTimers, r, ru, rt, rm \in AllSamples : TickEmit(t, r, ru, rt, rm)
    \/ \E t \in hideTimers : HideFire(t)

LiveSpec == Init /\ [][SoloNext]_vars /\ WF_vars(Fire) /\ WF_vars(Advance)

(***************************************************************************)
(* The claims.                                                             *)
(***************************************************************************)
TilesShowing == {u \in Users : Overlay(alertDisplay, u)}
HideCalled == lastCall.op = "hide"
ShowCalled == lastCall.op = "show"

\* C1: cancelling the generator also cancels its pending hide timers, so
\* onAlertHide is never invoked by a timer whose generator is unmounted.
NoHideAfterCancel == ~(HideCalled /\ lastCall.cancelled)

\* C2: a plant without any matched device has the derived status 'online'.
EmptyPlantOnline ==
    \A i \in DOMAIN plants :
        plants[i].deviceCount = 0 => plants[i].status = "online"

\* C3: when an older alert's hide timer fires while a newer alert for the
\* same target is displayed, it clears the newer alert's display, whose own
\* hide timer has not fired yet.
StaleHideClearsNewer ==
    (/\ HideCalled
     /\ lastCall.before # null
     /\ lastCall.before.id # lastCall.id
     /\ lastCall.before.userId = lastCall.userId)
        => /\ alertDisplay = null
           /\ \E t \in hideTimers : t.id = lastCall.before.id

StaleHideSameTarget ==
    /\ HideCalled
    /\ lastCall.before # null
    /\ lastCall.before.id > lastCall.id
    /\ lastCall.before.userId = lastCall.userId
    /\ \E t \in hideTimers : t.id = lastCall.before.id /\ t.left > 0

\* C4: the display holds at most one binding; the tile of subject X shows an
\* alert iff a binding exists and its userId is X; at most one tile shows.
AtMostOneTileShows ==
    /\ \A u \in Users :
           Overlay(alertDisplay, u) <=> (alertDisplay # null /\ alertDisplay.userId = u)
    /\ Cardinality(TilesShowing) <= 1

OneTileShows ==
    /\ ShowCalled
    /\ alertDisplay # null
    /\ TilesShowing = {alertDisplay.userId}

\* C5: show replaces the binding whatever the severities: after a show the
\* target's tile reads the alert just shown and every other tile reads none.
ShowReplaces ==
    ShowCalled =>
        /\ alertDisplay # null
        /\ alertDisplay.userId = lastCall.userId
        /\ alertDisplay.alert.id = lastCall.id
        /\ ShowAlertProp(alertDisplay, lastCall.userId) = alertDisplay.alert
        /\ \A u \in Users \ {lastCall.userId} : ShowAlertProp(alertDisplay, u) = null

InfoReplacedCritical ==
    /\ ShowCalled
    /\ lastCall.before # null
    /\ lastCall.before.type = "critical"
    /\ lastCall.before.userId # lastCall.userId
    /\ alertDisplay # null
    /\ alertDisplay.alert.type = "info"

\* C6: after a hide the binding is none and every tile reads no alert,
\* whichever target was bound.
HideClears ==
    HideCalled =>
        /\ alertDisplay = null
        /\ \A u \in Users : ShowAlertProp(alertDisplay, u) = null

HidOwnAlert ==
    /\ HideCalled
    /\ lastCall.before # null
    /\ lastCall.before.id = lastCall.id
    /\ lastCall.before.userId = lastCall.userId
    /\ lastCall.before.type = "critical"

\* C7: a hide on an idle display leaves it idle.
IdleHideNoOp ==
    (HideCalled /\ lastCall.before = null) => alertDisplay = null

HidIdle == HideCalled /\ lastCall.before = null /\ alertDisplay = null

\* C8: a cancelled effect run leaves no interval behind and never calls
\* onAlertShow again; only mounted instances hold an interval.
NoShowAfterCancel ==
    /\ \A t \in tickTimers : ~t.stale /\ mounted[t.owner]
    /\ ~(ShowCalled /\ lastCall.cancelled)

CancelledAfterEmission ==
    \E t \in hideTimers :
        /\ ~mounted[t.owner]
        /\ \A i \in tickTimers : i.owner # t.owner

\* C9: an emission shows the fresh alert and schedules exactly one hide timer
\* for it, due in 3 seconds; a timer is removed only when it is due, and then
\* the display is cleared whatever it holds; the seconds left only count down.
EmissionSchedulesHide ==
    [][/\ nextId' # nextId =>
              /\ alertDisplay' # null
              /\ alertDisplay'.alert.id = nextId
              /\ \E g \in Gens :
                     hideTimers' = hideTimers
                         \cup {[owner |-> g, left |-> HideSeconds,
                                userId |-> alertDisplay'.userId, id |-> nextId]}
              /\ Cardinality(hideTimers') = Cardinality(hideTimers) + 1
       /\ \A t \in hideTimers :
              \/ \E u \in hideTimers' :
                     /\ u.id = t.id
                     /\ u.left \in {t.left, t.left - 1}
                     /\ nextId' # nextId => u.left = t.left
              \/ t.left = 0 /\ alertDisplay' = null
      ]_vars

EmittedWhileTimerPending ==
    /\ ShowCalled
    /\ Cardinality(hideTimers) = 2
    /\ \E t \in hideTimers : t.id = lastCall.id /\ t.left = HideSeconds

Matched(i) ==
    {j \in DOMAIN rawDevices : rawDevices[j].plant_id = rawPlants[i].plant_id}

MatchedStates(i) == {rawDevices[j].status : j \in Matched(i)}

\* the output of device j, an absent one counting as 0
OutputOf(j) ==
    IF "current_output" \in DOMAIN rawDevices[j] THEN rawDevices[j].current_output
    ELSE 0

RECURSIVE SumOutputs(_)
SumOutputs(js) ==
    IF js = {} THEN 0
    ELSE LET j == CHOOSE j \in js : TRUE
         IN  OutputOf(j) + SumOutputs(js \ {j})

\* C11: a plant with at least one matched device, all of them 'offline', has
\* the derived status 'offline'.
AllOfflineIsOffline ==
    \A i \in DOMAIN plants :
        (Matched(i) # {} /\ MatchedStates(i) = {"offline"})
            => plants[i].status = "offline"

TwoOfflineDevices ==
    \E i \in DOMAIN plants :
        /\ Cardinality(Matched(i)) = 2
        /\ MatchedStates(i) = {"offline"}
        /\ plants[i].status = "offline"

\* C12: a plant whose matched devices are not all 'offline' is 'maintenance'
\* when one of them is 'fault' or 'warning' and 'online' otherwise; the
\* derived status is always online, offline or maintenance.
NotAllOfflineStatus ==
    \A i \in DOMAIN plants :
        /\ plants[i].status \in {"online", "offline", "maintenance"}
        /\ (MatchedStates(i) \ {"offline"} # {}) =>
               plants[i].status =
                   IF MatchedStates(i) \cap {"fault", "warning"} # {}
                   THEN "maintenance" ELSE "online"

OfflineAndFault ==
    \E i \in DOMAIN plants :
        MatchedStates(i) = {"offline", "fault"} /\ plants[i].status = "maintenance"

\* C13: deviceCount is the number of devices whose plant id is the plant's.
DeviceCountIsMatched ==
    \A i \in DOMAIN plants : plants[i].deviceCount = Cardinality(Matched(i))

CountsOnlyOwnDevices ==
    \E i \in DOMAIN plants :
        /\ Len(rawDevices) = 2
        /\ plants[i].deviceCount = 1

\* C14: with a capacity of 0, or none, the derived efficiency is 0.
ZeroCapacityEfficiency ==
    \A i \in DOMAIN plants :
        ("capacity" \notin DOMAIN rawPlants[i] \/ rawPlants[i].capacity = 0)
            => plants[i].efficiency = 0

GeneratingWithoutCapacity ==
    /\ \E i \in DOMAIN plants :
           /\ "capacity" \notin DOMAIN rawPlants[i]
           /\ plants[i].currentGeneration > 0
           /\ plants[i].efficiency = 0
    /\ \E i \in DOMAIN plants :
           /\ "capacity" \in DOMAIN rawPlants[i]
           /\ rawPlants[i].capacity = 0
           /\ plants[i].currentGeneration > 0
           /\ plants[i].efficiency = 0

\* C15: the derived generation is the sum of current_output over the matched
\* devices, an absent output counting as 0; it is 0 when no device matches.
GenerationIsSum ==
    \A i \in DOMAIN plants :
        /\ plants[i].currentGeneration = SumOutputs(Matched(i))
        /\ Matched(i) = {} => plants[i].currentGeneration = 0

SumWithAbsentOutput ==
    \E i \in DOMAIN plants :
        /\ Cardinality(Matched(i)) = 2
        /\ \E j \in Matched(i) : "current_output" \notin DOMAIN rawDevices[j]
        /\ \E j \in Matched(i) : "current_output" \in DOMAIN rawDevices[j]
        /\ plants[i].currentGeneration > 0

\* C16: with a capacity above 0 the derived efficiency is generation /
\* capacity * 100 to the nearest hundredth; outputs 3.5 and 1.5 with capacity
\* 10 give generation 5.0 and efficiency 50.0.
EfficiencyRounded ==
    \A i \in DOMAIN plants :
        ("capacity" \in DOMAIN rawPlants[i] /\ rawPlants[i].capacity > 0) =>
            LET cap == rawPlants[i].capacity
                exact == SumOutputs(Matched(i)) * 10000
                diff == plants[i].efficiency * cap - exact
            IN  /\ 2 * diff <= cap
                /\ 2 * (0 - diff) <= cap
                /\ (/\ cap = 100
                    /\ Cardinality(Matched(i)) = 2
                    /\ {OutputOf(j) : j \in Matched(i)} = {35, 15})
                       => /\ plants[i].currentGeneration = 50
                          /\ plants[i].efficiency = 5000

FiveOverTen ==
    \E i \in DOMAIN plants :
        /\ "capacity" \in DOMAIN rawPlants[i]
        /\ rawPlants[i].capacity = 100
        /\ Cardinality(Matched(i)) = 2
        /\ {OutputOf(j) : j \in Matched(i)} = {35, 15}
        /\ plants[i].currentGeneration = 50
        /\ plants[i].efficiency = 5000

ClassifierTotal ==
    \A s \in RenderedStatuses :
        /\ getStatusColor(s) \in
               {"text-green-500", "text-red-500", "text-orange-500",
                "text-red-600", "text-yellow-500", "text-gray-500"}
        /\ getStatusBg(s) \in
               {"bg-green-50 border-green-200", "bg-red-50 border-red-200",
                "bg-orange-50 border-orange-200", "bg-red-100 border-red-300",
                "bg-yellow-50 border-yellow-200", "bg-gray-50 border-gray-200"}
        /\ tileStatusColor(s) \in
               {"text-green-500", "text-red-500", "text-yellow-500", "text-gray-500"}
        /\ s \notin {"online", "offline", "warning", "fault", "maintenance"} =>
               /\ getStatusColor(s) = "text-gray-500"
               /\ getStatusBg(s) = "bg-gray-50 border-gray-200"
        /\ s \notin {"online", "offline", "maintenance"} =>
               tileStatusColor(s) = "text-gray-500"

UnknownStatusRendered ==
    /\ "unknown" \in RenderedStatuses
    /\ "maintenance" \in RenderedStatuses
    /\ getStatusColor("unknown") = "text-gray-500"

\* C19: every emitted alert has a target among user-1 .. user-20, a severity
\* among critical, warning and info, and a message of the 4-entry catalog of
\* that severity.
EmittedAlertWellFormed ==
    alertDisplay # null =>
        /\ alertDisplay.userId \in Users
        /\ alertDisplay.alert.type \in {"critical", "warning", "info"}
        /\ Len(alertMessages[alertDisplay.alert.type]) = 4
        /\ \E k \in 1..4 :
               alertDisplay.alert.message = alertMessages[alertDisplay.alert.type][k]

WarningEmitted ==
    /\ ShowCalled
    /\ alertDisplay # null
    /\ alertDisplay.alert.type = "warning"
    /\ alertDisplay.alert.message = "Battery level low"
    /\ alertDisplay.userId # <<"user-", 1>>

\* C20: a step emits at most one alert; an alert is emitted only by one due
\* interval handler whose trial succeeded, and that step already holds the
\* show and the scheduled hide; a handler whose trial failed changes nothing
\* but its own interval.
TickEmitsAtMostOne ==
    [][/\ nextId' \in {nextId, nextId + 1}
       /\ nextId' = nextId + 1 =>
              /\ lastCall'.op = "show"
              /\ lastCall'.id = nextId
              /\ lastCall'.trial * 10 > 7 * RandDen
              /\ \E t \in tickTimers :
                     /\ t.left = 0
                     /\ tickTimers' = (tickTimers \ {t})
                                          \cup {[t EXCEPT !.left = TickSeconds]}
              /\ alertDisplay' # null
              /\ alertDisplay'.alert.id = nextId
              /\ \E u \in hideTimers' \ hideTimers : u.id = nextId
       /\ nextId' = nextId =>
              \/ alertDisplay' = alertDisplay
              \/ alertDisplay' = null /\ lastCall'.op = "hide"
      ]_vars

EmittedOnTick ==
    /\ ShowCalled
    /\ lastCall.trial * 10 > 7 * RandDen
    /\ \E t \in tickTimers : t.left = TickSeconds
    /\ \E u \in hideTimers : u.id = lastCall.id /\ u.left = HideSeconds

SoloAlternates ==
    /\ Cardinality(hideTimers) <= 1
    /\ ShowCalled =>
           /\ lastCall.before = null
           /\ \A t \in hideTimers : t.id = lastCall.id
    /\ HideCalled =>
           /\ lastCall.before # null
           /\ lastCall.before.id = lastCall.id
           /\ hideTimers = {}
    /\ lastCall = NoCall => (alertDisplay = null /\ hideTimers = {})
    /\ alertDisplay # null =>
           \E t \in hideTimers : t.id = alertDisplay.alert.id /\ t.left <= HideSeconds
    /\ \A t \in hideTimers :
           alertDisplay # null /\ alertDisplay.alert.id = t.id

SecondAlertHiddenAfterRemount ==
    /\ HideCalled
    /\ lastCall.id = 2
    /\ lastCall.before # null
    /\ lastCall.before.id = 2
    /\ \E t \in tickTimers : t.left = TickSeconds

\* C26: every onAlertShow is eventually followed by the onAlertHide of that
\* alert, also when the generator is unmounted in between: the display never
\* stays in Showing forever.
ShowLeadsToHide ==
    /\ \A i \in 1..MaxAlerts :
           (ShowCalled /\ lastCall.id = i) ~> (HideCalled /\ lastCall.id = i)
    /\ (alertDisplay # null) ~> (alertDisplay = null)

HiddenWhileUnmounted ==
    /\ HideCalled
    /\ lastCall.before # null
    /\ lastCall.before.id = lastCall.id
    /\ ~mounted[1]
    /\ tickTimers = {}

\* C27: every mounted AlertSystem instance has exactly one tick interval and
\* an unmounted one has none: an effect re-run clears the previous interval
\* before it starts the new one.
OneIntervalPerInstance ==
    \A g \in Gens :
        Cardinality({t \in tickTimers : t.owner = g}) = IF mounted[g] THEN 1 ELSE 0

IntervalRestartedMidCycle ==
    \E g \in Gens :
        /\ mounted[g]
        /\ \E t \in tickTimers : t.owner = g /\ t.left = TickSeconds
        /\ \E h \in hideTimers :
               h.owner = g /\ h.left > 0 /\ h.left < HideSeconds

\* the device list without its j-th device
WithoutDevice(devices, j) ==
    SubSeq(devices, 1, j - 1) \o SubSeq(devices, j + 1, Len(devices))

\* the deviceCounts of the first n plants, added up
RECURSIVE SumDeviceCounts(_)
SumDeviceCounts(n) ==
    IF n = 0 THEN 0 ELSE SumDeviceCounts(n - 1) + plants[n].deviceCount

\* C28: a plant's derived values depend only on the devices with its own
\* plant id: adding, removing or changing a device of another plant leaves
\* them as they are; the deviceCounts of all plants add up to the number of
\* devices whose plant id is that of some plant, at most the list's length.
OtherPlantsDevicesIgnored ==
    /\ \A i \in DOMAIN plants :
           LET p == rawPlants[i]
               others == {d \in DeviceRows :
                             /\ d.plant_id # p.plant_id
                             /\ "current_output" \in DOMAIN d
                             /\ d.status \in {"online", "offline", "fault"}}
           IN  /\ \A d \in others : MapPlant(p, Append(rawDevices, d)) = plants[i]
               /\ \A j \in DOMAIN rawDevices :
                      rawDevices[j].plant_id # p.plant_id =>
                          /\ MapPlant(p, WithoutDevice(rawDevices, j)) = plants[i]
                          /\ \A d \in others :
                                 MapPlant(p, [rawDevices EXCEPT ![j] = d]) = plants[i]
    /\ SumDeviceCounts(Len(plants)) =
           Cardinality({j \in DOMAIN rawDevices :
                           \E i \in DOMAIN rawPlants :
                               rawDevices[j].plant_id = rawPlants[i].plant_id})
    /\ SumDeviceCounts(Len(plants)) <= Len(rawDevices)

OneDeviceEach ==
    /\ Len(plants) = 2
    /\ plants[1].deviceCount = 1
    /\ plants[2].deviceCount = 1
    /\ plants[1].status = "offline"
    /\ plants[2].status = "maintenance"
    /\ plants[1].currentGeneration # plants[2].currentGeneration

\* C24: handleLogout ends logged out whether the logout request succeeds or
\* fails: user is null, isAuthenticated is false, 'user' and 'token' are
\* removed from localStorage, selectedDevice is null and the view is 'login'
\* (the last two for the Dashboard that started it, while it is mounted).
LogoutEndsLoggedOut ==
    lastHandler.name = "handleLogout" =>
        /\ user = null
        /\ ~isAuthenticated
        /\ localStorage.user = Absent
        /\ localStorage.token = Absent
        /\ logoutCall = "idle"
        /\ lastHandler.alive => (selectedDevice = null /\ currentView = "login")

LoggedOutAfterFailedRequest ==
    /\ lastHandler.name = "handleLogout"
    /\ lastHandler.failed
    /\ lastHandler.alive
    /\ user = null
    /\ location = "/login"

\* C29: in every reachable state isAuthenticated implies a user; the
\* Dashboard is mounted only for an authenticated session and, once its
\* effects ran, never shows its own LoginForm, so its handleLogin (which sets
\* isAuthenticated without a user) cannot run.
AuthenticatedHasUser ==
    /\ isAuthenticated => user # null
    /\ dashboard # "unmounted" =>
           (isAuthenticated /\ ~isLoading /\ location = "/dashboard")
    /\ Interactive => DashboardRender \in {"PlantsOverview", "DeviceDetail"}
    /\ ~ENABLED handleLogin

DashboardWithoutToken ==
    /\ isAuthenticated
    /\ user = TempUser
    /\ localStorage.token = Absent
    /\ Interactive
    /\ DashboardRender = "PlantsOverview"

\* C30: the view is 'device' only together with a selected device.
DeviceViewHasSelection ==
    currentView = "device" => selectedDevice # null

DeviceViewWhileLoggingOut ==
    /\ currentView = "device"
    /\ selectedDevice = [id |-> "INV-2"]
    /\ Interactive
    /\ logoutCall = "pending"

\* C21: when the telemetry source fails to answer a fetch, usePlantsData
\* reports a non-null error and PlantsOverview shows its error state.
FetchFailureSurfaced ==
    lastFetch = "failed" => (error # null /\ PlantsOverviewRender = "error")

====
